---- MODULE Spec2Model ----
(***************************************************************************)
(* BioSpaceEngine: the Triple Generator (management command                *)
(* generate_triples) over the Study / Section / EntityOccurrence /         *)
(* EvidenceSentence / Triple tables, and the Semantic Retrieval Engine     *)
(* (SemanticSearchService), the Embedding Index Builder (management        *)
(* command build_faiss_index), the study search endpoint                   *)
(* (StudyViewSet.search) and the publication ingestion (ingest_csv).       *)
(*                                                                         *)
(* Confidence values are kept in tenths: 3 is 0.3 and 6 is 0.6.            *)
(* Text is a sequence of characters; str.lower() and the `in` substring    *)
(* test are computed on those sequences.                                   *)
(***************************************************************************)
EXTENDS Integers, Sequences, FiniteSets, Bags, TLC

\* ------------------------------------------------------------------ bounds
MaxOcc == 4
MaxSent == 2
MaxVec == 2
MaxTopK == 2

VARIABLES
    etype,      \* Entity table: id -> entity_type
    secs,       \* Study and Section tables: study id -> ids of its sections
    occ,        \* EntityOccurrence rows: <<study, section key, entity>>
    sents,      \* EvidenceSentence rows
    triples,    \* Triple rows, committed (what every connection sees): a bag
    pc,         \* "idle" | "run" | "done": the generate_triples command
    studies,    \* handle: the selected studies, in enumeration order
    clear,      \* handle: options["clear_existing"]
    si,         \* handle: index of the study being processed
    phase,      \* "begin" | "pairs": position inside the study's transaction
    k,          \* index of the next (section, pair) of the study
    tx,         \* Triple rows as the open transaction sees them
    model,      \* SemanticSearchService.model: None or <<the model's name>>
    index,      \* SemanticSearchService.index: None or <<the vectors, in order>>
    metadata,   \* SemanticSearchService.metadata: None or <<the metadata rows>>
    call,       \* <<the arguments of the last search() call>>, None before it
    results,    \* the list the last search() call returned
    raised,     \* SemanticSearchService() raised instead of returning
    emb,        \* EvidenceSentence.embedding_vector of sentence 1, 2, ...
    files,      \* data/indices: index name -> the two artifact files
    descr,      \* SearchIndex rows: index name -> None or <<descriptor>>
    build,      \* the build_faiss_index command: its position and locals
    evs,        \* EvidenceSentence rows the endpoint reads: id -> study id
    req,        \* StudyViewSet.search: the parameters and locals of the last request
    resp,       \* <<the last Response of StudyViewSet.search>>, None before it
    pubs,       \* Study rows as ingest_csv sees them: pmcid, title, pmc_url
    ingest,     \* <<the CSV and the options of the last ingest_csv run>>
    dir,        \* the output directory of download_pmc_articles: its files
    dl,         \* <<the last download_pmc_articles run>>, None before it
    runs        \* generate_triples processes sharing the database: their locals

\* The generator's side and the retrieval engine's side of the state.
gen == <<etype, secs, occ, sents, triples, pc, studies, clear, si, phase, k, tx>>
svc == <<model, index, metadata, call, results, raised>>
bld == <<emb, files, descr, build>>
web == <<evs, req, resp>>
ing == <<pubs, ingest>>
dwn == <<dir, dl>>
rce == <<runs>>
vars == <<gen, svc, bld, web, ing, dwn, rce>>

\* ------------------------------------------------------------ the database
\* Study.objects.all() and Entity.objects.all(), as sets of ids.
Studies == DOMAIN secs
Entities == DOMAIN etype

\* Study.Meta.ordering = ['-year', 'title']: the studies are enumerated by
\* descending year; study s is of year s, so the enumeration is N..1.
StudyOrder == [i \in 1..Cardinality(Studies) |-> Cardinality(Studies) + 1 - i]

\* The section key 0 is the "no section" bucket (occurrence.section_id or 0).
NoSection == 0
Buckets(s) == {NoSection} \cup secs[s]

\* A null foreign key / Python None; a value that may be None is a tuple
\* otherwise (an evidence key, or <<value>>).
None == <<>>

\* Entity.entity_type values in the store; "" is a missing type, "Organism"
\* a differently-cased spelling.
Types == {"organism", "stressor", "outcome", "assay", "Organism", ""}

\* Entity.name of entity e: one upper-case character per entity.
Name(e) == <<<<"A", "B", "C", "D">>[e]>>

\* EvidenceSentence.sentence_text values that are ingested.
Texts == {<<"a", "x", "B">>, <<"b", "C">>}

\* ------------------------------------------------------------------- text
\* str.lower() on one character.
LowerChar(c) ==
    CASE c = "A" -> "a"
      [] c = "B" -> "b"
      [] c = "C" -> "c"
      [] c = "D" -> "d"
      [] OTHER -> c

\* str.lower() on a text.
Lower(text) == [i \in 1..Len(text) |-> LowerChar(text[i])]

\* `name in text`: name is a contiguous substring of text.
Contains(text, name) ==
    \E i \in 1..(Len(text) + 1) :
        /\ i + Len(name) - 1 <= Len(text)
        /\ SubSeq(text, i, i + Len(name) - 1) = name

\* str.lower() on an entity type.
LowerType(t) ==
    CASE t = "Organism" -> "organism"
      [] t = "Stressor" -> "stressor"
      [] t = "Outcome" -> "outcome"
      [] t = "Assay" -> "assay"
      [] OTHER -> t

\* ------------------------------------------------------ relation inference
\* (type or "other").lower()
Canonical(t) == LowerType(IF t = "" THEN "other" ELSE t)

\* _infer_relation comparing the stored types as they are, without
\* (type or "other").lower().
InferRelationCaseSensitive(type_a, type_b) ==
    IF type_a = "organism" /\ type_b = "stressor" THEN <<"affected_by", TRUE>>
    ELSE IF type_a = "organism" /\ type_b = "outcome" THEN <<"exhibits", TRUE>>
    ELSE IF type_a = "stressor" /\ type_b = "outcome" THEN <<"influences", TRUE>>
    ELSE IF type_a = "organism" /\ type_b = "assay" THEN <<"measured_by", TRUE>>
    ELSE IF type_a = type_b THEN <<"related_to", FALSE>>
    ELSE IF {type_a, type_b} \subseteq {"organism", "plant"} THEN <<"related_to", FALSE>>
    ELSE <<"associated_with", FALSE>>

\* _infer_relation: <<relation, directional>>
InferRelation(type_a, type_b) ==
    LET a == Canonical(type_a)
        b == Canonical(type_b)
    IN  IF a = "organism" /\ b = "stressor" THEN <<"affected_by", TRUE>>
        ELSE IF a = "organism" /\ b = "outcome" THEN <<"exhibits", TRUE>>
        ELSE IF a = "stressor" /\ b = "outcome" THEN <<"influences", TRUE>>
        ELSE IF a = "organism" /\ b = "assay" THEN <<"measured_by", TRUE>>
        ELSE IF a = b THEN <<"related_to", FALSE>>
        ELSE IF {a, b} \subseteq {"organism", "plant"} THEN <<"related_to", FALSE>>
        ELSE <<"associated_with", FALSE>>

\* priority.get((entity_type or "").lower(), 0)
Priority(t) ==
    LET c == LowerType(t)
    IN  CASE c = "organism" -> 3
          [] c = "stressor" -> 2
          [] c = "outcome" -> 2
          [] c = "assay" -> 1
          [] OTHER -> 0

\* _apply_directional with the comparison of line 170 reversed.
ApplyDirectionalLowerFirst(a, b) ==
    LET score_a == Priority(etype[a])
        score_b == Priority(etype[b])
    IN  IF score_a = score_b
        THEN (IF a < b THEN <<a, b>> ELSE <<b, a>>)
        ELSE (IF score_a >= score_b THEN <<b, a>> ELSE <<a, b>>)

\* _apply_directional: <<subject, object>>
ApplyDirectional(a, b) ==
    LET score_a == Priority(etype[a])
        score_b == Priority(etype[b])
    IN  IF score_a = score_b
        THEN (IF a < b THEN <<a, b>> ELSE <<b, a>>)
        ELSE (IF score_a >= score_b THEN <<a, b>> ELSE <<b, a>>)

\* handle, lines 85-92: the relation and the oriented pair of the pair
\* (a, b) as combinations() enumerates it: <<subject, relation, object>>.
Oriented(a, b) ==
    LET ir == InferRelation(etype[a], etype[b])
        so == IF ir[2] THEN ApplyDirectional(a, b) ELSE <<a, b>>
    IN  <<so[1], ir[1], so[2]>>

\* ---------------------------------------------------------------- evidence
\* The key of a sentence (the evidence link of a triple).
SentKey(x) == <<x.study, x.sec, x.idx>>

\* EvidenceSentence.Meta.ordering within one study: (section, sentence_index),
\* the null section first.
SentBefore(x, y) == x.sec < y.sec \/ (x.sec = y.sec /\ x.idx < y.idx)

\* The sentence holds both names: name_a in text and name_b in text.
Mentions(x, a, b) ==
    /\ Contains(Lower(x.text), Lower(Name(a)))
    /\ Contains(Lower(x.text), Lower(Name(b)))

\* _find_evidence_sentence when the loop of lines 181-184 keeps the last
\* matching sentence instead of returning the first.
FindEvidenceLast(S, s, a, b, sec) ==
    LET candidates == {x \in S : x.study = s /\ (sec # NoSection => x.sec = sec)}
        hits == {x \in candidates : Mentions(x, a, b)}
    IN  IF hits = {} THEN None
        ELSE SentKey(CHOOSE x \in hits : \A y \in hits : y = x \/ SentBefore(y, x))

\* _find_evidence_sentence over the EvidenceSentence table S: the key of the
\* first matching sentence, or None.
FindEvidence(S, s, a, b, sec) ==
    LET candidates == {x \in S : x.study = s /\ (sec # NoSection => x.sec = sec)}
        hits == {x \in candidates : Mentions(x, a, b)}
    IN  IF hits = {} THEN None
        ELSE SentKey(CHOOSE x \in hits : \A y \in hits : y = x \/ SentBefore(x, y))

\* ------------------------------------------------------------ Triple table
\* A Triple row.  qual is the section key the qualifiers were built from
\* ({"section": ..., "section_title": ...} of that section, nulls for 0).
Row(s, subj, rel, obj, ev, qual, conf) ==
    [study |-> s, subj |-> subj, rel |-> rel, obj |-> obj, ev |-> ev,
     qual |-> qual, conf |-> conf]

\* The identity tuple of a row.
Ident(r) == <<r.study, r.subj, r.rel, r.obj>>

\* The number of rows of table T among the distinct rows S.
CountIn(T, S) == BagCardinality([r \in S |-> T[r]])

\* Triple.objects.filter(study=s)
StudyRows(T, s) == {r \in BagToSet(T) : r.study = s}

\* Triple.objects.filter(study=s).count()
StudyCount(T, s) == CountIn(T, StudyRows(T, s))

\* Triple.objects.filter(study=, subject_entity=, relation=, object_entity=)
Matching(T, id) == {r \in BagToSet(T) : Ident(r) = id}

\* Triple.objects.all().delete(): the delete without its study filter.
DeleteEveryStudy(T, s) == EmptyBag

\* Triple.objects.filter(study=study).delete()
DeleteStudy(T, s) == T (-) [r \in StudyRows(T, s) |-> T[r]]

\* get_or_create raises MultipleObjectsReturned when get() finds two rows.
Raises(T, s, a, b) ==
    LET o == Oriented(a, b)
    IN  CountIn(T, Matching(T, <<s, o[1], o[2], o[3]>>)) > 1

\* Upsert with Triple.objects.create() in place of get_or_create().
UpsertAlwaysCreates(S, T, s, sec, a, b) ==
    LET o == Oriented(a, b)
        ev == FindEvidence(S, s, o[1], o[3], sec)
    IN  T (+) SetToBag({Row(s, o[1], o[2], o[3], ev, sec, IF ev # None THEN 6 ELSE 3)})

\* Upsert with evidence_sentence among the lookup fields of get_or_create
\* instead of its defaults.
UpsertEvidenceInLookup(S, T, s, sec, a, b) ==
    LET o == Oriented(a, b)
        ev == FindEvidence(S, s, o[1], o[3], sec)
        m == {r \in Matching(T, <<s, o[1], o[2], o[3]>>) : r.ev = ev}
    IN  IF m = {}
        THEN T (+) SetToBag({Row(s, o[1], o[2], o[3], ev, sec, IF ev # None THEN 6 ELSE 3)})
        ELSE T

\* Upsert without lines 116-120: an existing row is never upgraded.
UpsertNeverUpgrades(S, T, s, sec, a, b) ==
    LET o == Oriented(a, b)
        ev == FindEvidence(S, s, o[1], o[3], sec)
    IN  IF Matching(T, <<s, o[1], o[2], o[3]>>) = {}
        THEN T (+) SetToBag({Row(s, o[1], o[2], o[3], ev, sec, IF ev # None THEN 6 ELSE 3)})
        ELSE T

\* Lines 104-120 without `triple.confidence = 0.6` at line 119: the upgrade
\* sets the link and the qualifiers only.
UpsertKeepsConfidence(S, T, s, sec, a, b) ==
    LET o == Oriented(a, b)
        ev == FindEvidence(S, s, o[1], o[3], sec)
        m == Matching(T, <<s, o[1], o[2], o[3]>>)
    IN  IF m = {}
        THEN T (+) SetToBag({Row(s, o[1], o[2], o[3], ev, sec,
                                 IF ev # None THEN 6 ELSE 3)})
        ELSE LET row == CHOOSE r \in m : TRUE
             IN  IF ev # None /\ row.ev = None
                 THEN (T (-) SetToBag({row}))
                      (+) SetToBag({[row EXCEPT !.ev = ev, !.qual = sec]})
                 ELSE T

\* Lines 104-120 without `triple.evidence_sentence is None` at line 116: an
\* existing row is given the evidence found, whatever it had.
UpsertAlwaysRelinks(S, T, s, sec, a, b) ==
    LET o == Oriented(a, b)
        ev == FindEvidence(S, s, o[1], o[3], sec)
        m == Matching(T, <<s, o[1], o[2], o[3]>>)
    IN  IF m = {}
        THEN T (+) SetToBag({Row(s, o[1], o[2], o[3], ev, sec,
                                 IF ev # None THEN 6 ELSE 3)})
        ELSE LET row == CHOOSE r \in m : TRUE
             IN  IF ev # None
                 THEN (T (-) SetToBag({row}))
                      (+) SetToBag({[row EXCEPT !.ev = ev, !.qual = sec, !.conf = 6]})
                 ELSE T

\* handle, lines 97-120: get_or_create on the identity tuple, then the
\* in-place upgrade of a row that had no evidence.
Upsert(S, T, s, sec, a, b) ==
    LET o == Oriented(a, b)
        ev == FindEvidence(S, s, o[1], o[3], sec)
        m == Matching(T, <<s, o[1], o[2], o[3]>>)
    IN  IF m = {}
        THEN T (+) SetToBag({Row(s, o[1], o[2], o[3], ev, sec,
                                 IF ev # None THEN 6 ELSE 3)})
        ELSE LET row == CHOOSE r \in m : TRUE
             IN  IF ev # None /\ row.ev = None
                 THEN (T (-) SetToBag({row}))
                      (+) SetToBag({[row EXCEPT !.ev = ev, !.qual = sec, !.conf = 6]})
                 ELSE T

\* ------------------------------------------------------- the work of a study
\* EntityOccurrence.objects.filter(study=s).exists()
HasOccurrences(s) == \E o \in occ : o[1] = s

\* The (section, pair) visits of study s: the groups by section key, and in
\* each combinations(entities, 2) of its unique entities.
Visits(s) ==
    {<<sec, a, b>> \in Buckets(s) \X Entities \X Entities :
        a < b /\ <<s, sec, a>> \in occ /\ <<s, sec, b>> \in occ}

\* order_by("section_id", "entity_id", ...): groups in section order, pairs in
\* entity-id order.
VisitBefore(x, y) ==
    \/ x[1] < y[1]
    \/ x[1] = y[1] /\ x[2] < y[2]
    \/ x[1] = y[1] /\ x[2] = y[2] /\ x[3] <= y[3]

RECURSIVE SortVisits(_)
SortVisits(W) ==
    IF W = {} THEN <<>>
    ELSE LET m == CHOOSE x \in W : \A y \in W : VisitBefore(x, y)
         IN  <<m>> \o SortVisits(W \ {m})

WorkList(s) == SortVisits(Visits(s))

\* The loops of lines 80-123 from visit i on, on table T: <<ok, table>>;
\* ok is FALSE when get_or_create raised.
RECURSIVE ApplyWork(_, _, _, _, _)
ApplyWork(S, T, s, w, i) ==
    IF i > Len(w) THEN <<TRUE, T>>
    ELSE IF Raises(T, s, w[i][2], w[i][3]) THEN <<FALSE, T>>
    ELSE ApplyWork(S, Upsert(S, T, s, w[i][1], w[i][2], w[i][3]), s, w, i + 1)

\* The whole transaction of study s (lines 60-125) applied to table T, with
\* EvidenceSentence table S: the table it commits, T itself when it raised
\* and rolled back.
GenStudy(S, T, s, cl) ==
    LET start == IF cl THEN DeleteStudy(T, s) ELSE T
        res == ApplyWork(S, start, s, WorkList(s), 1)
    IN  IF ~HasOccurrences(s) THEN start
        ELSE IF res[1] THEN res[2] ELSE T

\* ------------------------------------------------------------ the selection
\* An optional integer argument: <<>> when not given, else <<n>>.
Truthy(opt) == opt # None /\ opt[1] # 0

Min(a, b) == IF a < b THEN a ELSE b

\* handle, lines 45-49: the studies queryset of the run.
Selected(study_id, limit) ==
    IF Truthy(study_id)
    THEN SelectSeq(StudyOrder, LAMBDA s : s = study_id[1])
    ELSE IF Truthy(limit)
    THEN SubSeq(StudyOrder, 1, Min(limit[1], Len(StudyOrder)))
    ELSE StudyOrder

\* ----------------------------------------------------------------- actions
\* The tables before any occurrence, sentence or triple is stored.
Empty ==
    /\ occ = {}
    /\ sents = {}
    /\ triples = EmptyBag
    /\ pc = "idle"
    /\ studies = <<>>
    /\ clear = FALSE
    /\ si = 0
    /\ phase = "none"
    /\ k = 0
    /\ tx = EmptyBag

\* The retrieval engine as __init__ leaves it when nothing could be loaded.
Unloaded ==
    /\ model = None
    /\ index = None
    /\ metadata = None
    /\ call = None
    /\ results = <<>>
    /\ raised = FALSE

\* The index name builds target (the default of --index-name), which is
\* the one the retrieval engine loads.
IndexNames == {"evidence_search"}

\* Nothing was built, no build is running.
NoIndex ==
    /\ files = [n \in IndexNames |-> [index |-> None, meta |-> None]]
    /\ descr = [n \in IndexNames |-> None]
    /\ build = [pc |-> "idle", out |-> "none", name |-> "evidence_search",
                rows |-> <<>>, vecs |-> <<>>, meta |-> <<>>]

\* The endpoint has answered no request and reads no evidence sentence.
NoRequest ==
    /\ evs = <<>>
    /\ req = None
    /\ resp = None

\* ingest_csv has stored no Study and has not run.
NoPublication ==
    /\ pubs = {}
    /\ ingest = None

\* The output directory is empty and download_pmc_articles has not run.
NoDownload ==
    /\ dir = {}
    /\ dl = None

\* No second generate_triples process is running.
NoRace ==
    /\ runs = <<>>

\* Two studies, the first with one section, and two entities: an organism
\* and a stressor.
Init ==
    /\ etype = <<"organism", "stressor">>
    /\ secs = <<{1}, {}>>
    /\ Empty
    /\ Unloaded
    /\ emb = <<>>
    /\ NoIndex
    /\ NoRequest
    /\ NoPublication
    /\ NoDownload
    /\ NoRace

\* One study without sections and three entities of any types.
InitTypes ==
    /\ etype \in [{1, 2, 3} -> Types]
    /\ secs = <<{}>>
    /\ Empty
    /\ Unloaded
    /\ emb = <<>>
    /\ NoIndex
    /\ NoRequest
    /\ NoPublication
    /\ NoDownload
    /\ NoRace

\* No command is running: the process has exited (or was never started).
Stopped == pc \in {"idle", "done"}

\* The command's locals once it is gone.
Forget ==
    /\ pc' = "idle"
    /\ studies' = <<>>
    /\ clear' = FALSE
    /\ si' = 0
    /\ phase' = "none"
    /\ k' = 0
    /\ tx' = EmptyBag

\* The extraction stage stores a mention of entity e in study s, section sec.
AddOccurrence(s, sec, e) ==
    /\ UNCHANGED <<svc, bld, web, ing, dwn, rce>>
    /\ Stopped
    /\ <<s, sec, e>> \notin occ
    /\ Cardinality(occ) < MaxOcc
    /\ occ' = occ \cup {<<s, sec, e>>}
    /\ Forget
    /\ UNCHANGED <<etype, secs, sents, triples>>

\* The extraction stage stores a sentence of study s, section sec.
AddSentence(s, sec, text) ==
    /\ UNCHANGED <<svc, bld, web, ing, dwn, rce>>
    /\ Stopped
    /\ Cardinality(sents) < MaxSent
    /\ sents' = sents \cup
         {[study |-> s, sec |-> sec, text |-> text,
           idx |-> 1 + Cardinality({x \in sents : x.study = s /\ x.sec = sec})]}
    /\ Forget
    /\ UNCHANGED <<etype, secs, occ, triples>>

\* handle, lines 40-56: the command starts and selects its studies.
StartRun(study_id, limit, cl) ==
    /\ UNCHANGED <<svc, bld, web, ing, dwn, rce>>
    /\ Stopped
    /\ studies' = Selected(study_id, limit)
    /\ clear' = cl
    /\ tx' = EmptyBag
    /\ k' = 0
    /\ IF Len(Selected(study_id, limit)) = 0
       THEN pc' = "done" /\ si' = 1 /\ phase' = "none"
       ELSE pc' = "run" /\ si' = 1 /\ phase' = "begin"
    /\ UNCHANGED <<etype, secs, occ, sents, triples>>

\* The study the loop of line 58 is at.
Cur == studies[si]

\* `return` in place of `continue` at line 72: the loop ends.
AfterSkipReturns(i) == Len(studies) + 1

\* `continue` at line 72: the loop index after a study without occurrences.
AfterSkip(i) == i + 1

\* The command's position once the loop index is i.
Advance(i) ==
    /\ si' = i
    /\ pc' = IF i > Len(studies) THEN "done" ELSE "run"
    /\ phase' = IF i > Len(studies) THEN "none" ELSE "begin"
    /\ k' = 0
    /\ tx' = EmptyBag

\* What the other connections see of the table while a transaction that has
\* made it `working` is open (transaction.atomic, line 60).
Visible(committed, working) == committed

\* Lines 60-72 for a study without occurrences: the optional delete, the
\* warning, and `continue`, which leaves the atomic block and commits.
SkipStudy ==
    /\ UNCHANGED <<svc, bld, web, ing, dwn, rce>>
    /\ pc = "run" /\ phase = "begin"
    /\ ~HasOccurrences(Cur)
    /\ triples' = (IF clear THEN DeleteStudy(triples, Cur) ELSE triples)
    /\ Advance(AfterSkip(si))
    /\ UNCHANGED <<etype, secs, occ, sents, studies, clear>>

\* Lines 60-78 for a study with occurrences: the transaction opens, the
\* optional delete runs in it, the occurrences are grouped.
BeginStudy ==
    /\ UNCHANGED <<svc, bld, web, ing, dwn, rce>>
    /\ pc = "run" /\ phase = "begin"
    /\ HasOccurrences(Cur)
    /\ tx' = (IF clear THEN DeleteStudy(triples, Cur) ELSE triples)
    /\ triples' = Visible(triples, tx')
    /\ phase' = "pairs"
    /\ k' = 1
    /\ UNCHANGED <<etype, secs, occ, sents, pc, studies, clear, si>>

\* Lines 84-123 for one pair of one section group.
UpsertStep ==
    /\ UNCHANGED <<svc, bld, web, ing, dwn, rce>>
    /\ pc = "run" /\ phase = "pairs"
    /\ k <= Len(WorkList(Cur))
    /\ LET v == WorkList(Cur)[k]
       IN  IF Raises(tx, Cur, v[2], v[3])
           THEN /\ Forget
                /\ UNCHANGED triples
           ELSE /\ tx' = Upsert(sents, tx, Cur, v[1], v[2], v[3])
                /\ triples' = Visible(triples, tx')
                /\ k' = k + 1
                /\ UNCHANGED <<pc, studies, clear, si, phase>>
    /\ UNCHANGED <<etype, secs, occ, sents>>

\* Line 125 and the end of the atomic block: the transaction commits.
CommitStudy ==
    /\ UNCHANGED <<svc, bld, web, ing, dwn, rce>>
    /\ pc = "run" /\ phase = "pairs"
    /\ k > Len(WorkList(Cur))
    /\ triples' = tx
    /\ Advance(si + 1)
    /\ UNCHANGED <<etype, secs, occ, sents, studies, clear>>

\* The table after the process dies when every statement had been committed
\* on its own (no transaction.atomic): the partial work stays.
RollbackKeepsPartial(committed, working) == working

\* The table after the open transaction is lost (transaction.atomic rolls
\* back what was not committed).
Rollback(committed, working) == committed

\* The process dies while the command runs (killed, connection lost).
Crash ==
    /\ UNCHANGED <<svc, bld, web, ing, dwn, rce>>
    /\ pc = "run"
    /\ triples' = (IF phase = "pairs" THEN Rollback(triples, tx) ELSE triples)
    /\ Forget
    /\ UNCHANGED <<etype, secs, occ, sents>>

\* Command-line values of --study-id and --limit.
StudyIdArgs == {None} \cup {<<n>> : n \in 0..(Cardinality(Studies) + 1)}
LimitArgs == {None} \cup {<<n>> : n \in 0..(Cardinality(Studies) + 1)}

Next ==
    \/ \E s \in Studies, e \in Entities : \E sec \in Buckets(s) : AddOccurrence(s, sec, e)
    \/ \E s \in Studies, text \in Texts : \E sec \in Buckets(s) : AddSentence(s, sec, text)
    \/ \E study_id \in StudyIdArgs, limit \in LimitArgs, cl \in BOOLEAN :
           StartRun(study_id, limit, cl)
    \/ SkipStudy
    \/ BeginStudy
    \/ UpsertStep
    \/ CommitStudy
    \/ Crash

Spec == Init /\ [][Next]_vars

SpecTypes == InitTypes /\ [][Next]_vars

\* ------------------------------------------------- Semantic Retrieval Engine
\* Embedding vectors, and the inner product of two of them.  Similarities
\* are kept in tenths: 10 is 1.0.
Vectors == {<<1, 0>>, <<0, 1>>, <<-1, 0>>}
Dot(u, v) == 10 * (u[1] * v[1] + u[2] * v[2])

\* model.encode([query]): the embedding of each query text.
Queries == {<<"a">>, <<"b">>, <<"c">>}
Encode(q) ==
    CASE q = <<"a">> -> <<1, 0>>
      [] q = <<"b">> -> <<0, 1>>
      [] OTHER -> <<-1, 0>>

\* What IndexFlatIP.search reports in the slots it cannot fill: no vector
\* (label -1) and the lowest float, below every similarity.
Padding == [sim |-> -1000, idx |-> -1]

\* similarity thresholds handed to search(): the defaults 0.5 and 0.3, zero,
\* a negative one, and one that is not above the padding similarity.
Thresholds == {5, 3, 0, -5, -1000}

\* The hits of vector sequence ix for embedding e, best first: <<sim, idx>>
\* with 0-based idx; equal similarities in index order.
HitBefore(x, y) == x.sim > y.sim \/ (x.sim = y.sim /\ x.idx <= y.idx)

RECURSIVE SortHits(_)
SortHits(H) ==
    IF H = {} THEN <<>>
    ELSE LET m == CHOOSE x \in H : \A y \in H : HitBefore(x, y)
         IN  <<m>> \o SortHits(H \ {m})

\* index.search(query_embedding, top_k): exactly top_k slots.
IndexSearch(ix, e, top_k) ==
    LET hits == SortHits({[sim |-> Dot(ix[i], e), idx |-> i - 1] : i \in DOMAIN ix})
    IN  [j \in 1..top_k |-> IF j <= Len(hits) THEN hits[j] ELSE Padding]

\* list[i] of Python for a 0-based or negative i within range.
PyItem(list, i) == IF i < 0 THEN list[Len(list) + i + 1] ELSE list[i + 1]

\* search, lines 76-87, with the threshold test left out.
CollectIgnoringThreshold(found, meta, threshold) ==
    LET keep == SelectSeq([j \in DOMAIN found |-> [slot |-> j, hit |-> found[j]]],
                          LAMBDA x : x.hit.idx < Len(meta))
    IN  [j \in DOMAIN keep |->
            [evidence_id |-> PyItem(meta, keep[j].hit.idx).id,
             similarity_score |-> keep[j].hit.sim,
             rank |-> keep[j].slot]]

\* search, lines 76-87: the slots that pass the threshold and have a
\* metadata row, each with its 1-based slot number as rank.
Collect(found, meta, threshold) ==
    LET keep == SelectSeq([j \in DOMAIN found |-> [slot |-> j, hit |-> found[j]]],
                          LAMBDA x : x.hit.sim >= threshold /\ x.hit.idx < Len(meta))
    IN  [j \in DOMAIN keep |->
            [evidence_id |-> PyItem(meta, keep[j].hit.idx).id,
             similarity_score |-> keep[j].hit.sim,
             rank |-> keep[j].slot]]

\* SemanticSearchService.search: the list it returns.  An index object is
\* true whatever it holds; an empty metadata list is false.
SearchResult(query, top_k, threshold) ==
    IF index = None \/ metadata = None \/ metadata = <<<<>>>> \/ model = None
    THEN <<>>
    ELSE Collect(IndexSearch(index[1], Encode(query), top_k), metadata[1], threshold)

\* SemanticSearchService.is_available
IsAvailable == index # None /\ metadata # None

\* A caller runs search(query, top_k, threshold).
Search(query, top_k, threshold) ==
    /\ ~raised
    /\ results' = SearchResult(query, top_k, threshold)
    /\ call' = <<[query |-> query, top_k |-> top_k, threshold |-> threshold]>>
    /\ UNCHANGED <<model, index, metadata, raised>>
    /\ UNCHANGED <<gen, bld, web, ing, dwn, rce>>

\* The sequences over set S of length at most n.
SeqsUpTo(S, n) == UNION {[1..m -> S] : m \in 0..n}

\* The metadata list the builder writes for n vectors: row i describes
\* evidence sentence i.
MetaOf(n) == [i \in 1..n |-> [id |-> i]]

\* What _load_model finds: the sentence_transformers package cannot be
\* imported (SentenceTransformer is None), the model loads, or
\* SentenceTransformer('all-MiniLM-L6-v2') raises (no model files, no
\* network).
ModelSources == {"absent", "loads", "fails"}

\* _load_model: the model it leaves in self.model.
LoadModel(st) == IF st = "loads" THEN <<"all-MiniLM-L6-v2">> ELSE None

\* _load_model has no handler: what the constructor raises propagates.
LoadModelRaises(st) == st = "fails"

\* _load_index: <<index, metadata>> from the descriptor, the faiss module
\* and the two files (None for a file that cannot be read, else <<content>>).
LoadIndex(hasDescriptor, hasFaiss, indexFile, metaFile) ==
    IF ~hasDescriptor \/ ~hasFaiss THEN <<None, None>>
    ELSE IF indexFile = None \/ metaFile = None THEN <<None, None>>
    ELSE <<indexFile, metaFile>>

\* semantic_search = SemanticSearchService(): the service as __init__
\* leaves it, for every outcome of the two loads.  When _load_model raises,
\* __init__ does not return and _load_index does not run.
Constructed ==
    /\ \E st \in ModelSources, hasDescriptor, hasFaiss \in BOOLEAN :
       \E indexFile \in {None} \cup {<<ix>> : ix \in SeqsUpTo(Vectors, MaxVec)},
          metaFile \in {None} \cup {<<MetaOf(n)>> : n \in 0..MaxVec} :
          /\ raised = LoadModelRaises(st)
          /\ model = LoadModel(st)
          /\ index = IF LoadModelRaises(st) THEN None
                     ELSE LoadIndex(hasDescriptor, hasFaiss, indexFile, metaFile)[1]
          /\ metadata = IF LoadModelRaises(st) THEN None
                        ELSE LoadIndex(hasDescriptor, hasFaiss, indexFile, metaFile)[2]
    /\ call = None
    /\ results = <<>>

\* The constructed service; no generator data is stored.
InitSearch ==
    /\ etype = <<>>
    /\ secs = <<>>
    /\ Empty
    /\ Constructed
    /\ emb = <<>>
    /\ NoIndex
    /\ NoRequest
    /\ NoPublication
    /\ NoDownload
    /\ NoRace

NextSearch ==
    \E query \in Queries, top_k \in 1..MaxTopK, threshold \in Thresholds :
        Search(query, top_k, threshold)

SpecSearch == InitSearch /\ [][NextSearch]_vars

\* ------------------------------------------------- Embedding Index Builder
\* EvidenceSentence.embedding_vector values (a TextField): the JSON text of
\* an array of numbers (val), the empty string, text that is not JSON, and
\* the JSON text of a single number.
Stored ==
    {[kind |-> "array", val |-> v] : v \in {<<1, 0>>, <<0, 1>>, <<1>>}}
    \cup {[kind |-> kd, val |-> <<>>] : kd \in {"empty", "garbage", "number"}}

\* generate_embeddings (or any writer of the column) stores value v as the
\* embedding of sentence i.
StoreEmbedding(i, v) ==
    /\ i \in DOMAIN emb
    /\ emb' = [emb EXCEPT ![i] = v]
    /\ UNCHANGED <<files, descr, build>>
    /\ UNCHANGED <<gen, svc, web, ing, dwn, rce>>

\* filter(embedding_vector__isnull=False).exclude(embedding_vector=''):
\* the ids of the sentences with a non-empty embedding, in queryset order.
Embedded(E) == SelectSeq([i \in DOMAIN E |-> i], LAMBDA i : E[i].kind # "empty")

\* json.loads(evidence.embedding_vector) returns instead of raising.
Parses(v) == v.kind # "garbage"

\* The loop of lines 65-81 with the metadata row appended before the
\* embedding is parsed.
BuildListsMetadataFirst(E) ==
    LET ids == SelectSeq(Embedded(E), LAMBDA i : Parses(E[i]))
    IN  [embeddings |-> [j \in DOMAIN ids |-> E[ids[j]]],
         metadata |-> [j \in DOMAIN Embedded(E) |-> [id |-> Embedded(E)[j]]]]

\* The loop of lines 65-81: the parsed embeddings and the metadata rows of
\* the records whose embedding parses, both in queryset order.
BuildLists(E) ==
    LET ids == SelectSeq(Embedded(E), LAMBDA i : Parses(E[i]))
    IN  [embeddings |-> [j \in DOMAIN ids |-> E[ids[j]]],
         metadata |-> [j \in DOMAIN ids |-> [id |-> ids[j]]]]

\* np.array(embeddings).astype('float32') followed by shape[1] returns: the
\* entries are arrays of numbers of one length.  A number among arrays, or
\* arrays of different lengths, raise ValueError; numbers alone raise
\* IndexError at shape[1].
Stackable(L) ==
    \A j \in DOMAIN L : L[j].kind = "array" /\ Len(L[j].val) = Len(L[1].val)

\* The command is over with outcome out: its locals are gone.
Exited(n, out) ==
    [pc |-> "idle", out |-> out, name |-> n, rows |-> <<>>, vecs |-> <<>>,
     meta |-> <<>>]

\* The command returns or raises before it writes anything, with outcome
\* out, and the artifact of name n is removed on the way.
RefuseRemoving(n, out) ==
    /\ build' = Exited(n, out)
    /\ files' = [files EXCEPT ![n] = [index |-> None, meta |-> None]]
    /\ UNCHANGED <<emb, descr>>

\* The command returns (line 42) or raises CommandError (lines 49, 57, 84)
\* or another exception (lines 87-88) before it writes anything.
Refuse(n, out) ==
    /\ build' = Exited(n, out)
    /\ UNCHANGED <<emb, files, descr>>

\* handle, lines 33-94: the checks, the read of the embedded sentences and
\* the construction of the in-memory index.
BuildStart(n, force, modelLoads) ==
    /\ build.pc = "idle"
    /\ LET lists == BuildLists(emb)
       IN  IF ~force /\ descr[n] # None THEN Refuse(n, "exists")
           ELSE IF ~modelLoads THEN Refuse(n, "model_error")
           ELSE IF Embedded(emb) = <<>> THEN Refuse(n, "no_embeddings")
           ELSE IF lists.embeddings = <<>> THEN Refuse(n, "no_valid")
           ELSE IF ~Stackable(lists.embeddings) THEN Refuse(n, "error")
           ELSE /\ build' = [pc |-> "index", out |-> "running", name |-> n,
                             rows |-> emb,
                             vecs |-> [j \in DOMAIN lists.embeddings |->
                                          lists.embeddings[j].val],
                             meta |-> lists.metadata]
                /\ UNCHANGED <<emb, files, descr>>
    /\ UNCHANGED <<gen, svc, web, ing, dwn, rce>>

\* faiss.write_index(index, index_path), line 104.
WriteIndex ==
    /\ build.pc = "index"
    /\ files' = [files EXCEPT ![build.name].index = <<build.vecs>>]
    /\ build' = [build EXCEPT !.pc = "meta"]
    /\ UNCHANGED <<emb, descr>>
    /\ UNCHANGED <<gen, svc, web, ing, dwn, rce>>

\* json.dump(metadata, f), lines 107-108.
WriteMetadata ==
    /\ build.pc = "meta"
    /\ files' = [files EXCEPT ![build.name].meta = <<build.meta>>]
    /\ build' = [build EXCEPT !.pc = "descr"]
    /\ UNCHANGED <<emb, descr>>
    /\ UNCHANGED <<gen, svc, web, ing, dwn, rce>>

\* SearchIndex.objects.update_or_create, lines 111-120; the command ends.
WriteDescriptor ==
    /\ build.pc = "descr"
    /\ descr' = [descr EXCEPT ![build.name] =
                    <<[index_path |-> build.name, metadata_path |-> build.name,
                       dimension |-> Len(build.vecs[1]),
                       total_vectors |-> Len(build.vecs)]>>]
    /\ build' = Exited(build.name, "ok")
    /\ UNCHANGED <<emb, files>>
    /\ UNCHANGED <<gen, svc, web, ing, dwn, rce>>

\* The command's process is killed between two of its writes.
Interrupt ==
    /\ build.pc \in {"index", "meta", "descr"}
    /\ build' = Exited(build.name, "killed")
    /\ UNCHANGED <<emb, files, descr>>
    /\ UNCHANGED <<gen, svc, web, ing, dwn, rce>>

\* No generator data; two evidence sentences without an embedding, nothing
\* built.
InitBuild ==
    /\ etype = <<>>
    /\ secs = <<>>
    /\ Empty
    /\ Unloaded
    /\ emb = <<[kind |-> "empty", val |-> <<>>], [kind |-> "empty", val |-> <<>>]>>
    /\ NoIndex
    /\ NoRequest
    /\ NoPublication
    /\ NoDownload
    /\ NoRace

NextBuild ==
    \/ \E i \in DOMAIN emb, v \in Stored : StoreEmbedding(i, v)
    \/ \E n \in IndexNames, force, modelLoads \in BOOLEAN :
          BuildStart(n, force, modelLoads)
    \/ WriteIndex
    \/ WriteMetadata
    \/ WriteDescriptor
    \/ Interrupt

SpecBuild == InitBuild /\ [][NextBuild]_vars

\* --------------------------------------------------- study search endpoint
\* The elements of a sequence.
Range(seq) == {seq[i] : i \in DOMAIN seq}

\* Study.title and Study.abstract of study s.
Title(s) == <<<<"x", "A">>, <<"b">>, <<"c">>>>[s]
Abstract(s) == <<<<>>, <<"a", "b">>, <<>>>>[s]

\* EvidenceSentence.sentence_text of sentence e.
SentenceText(e) == <<<<"a", "x">>, <<"b">>, <<"c">>>>[e]

\* str.strip(): leading and trailing blanks removed.
RECURSIVE LStrip(_)
LStrip(t) == IF t # <<>> /\ Head(t) = " " THEN LStrip(Tail(t)) ELSE t

RECURSIVE RStrip(_)
RStrip(t) ==
    IF t # <<>> /\ t[Len(t)] = " " THEN RStrip(SubSeq(t, 1, Len(t) - 1)) ELSE t

Strip(t) == RStrip(LStrip(t))

\* field__icontains=q: a substring match that ignores letter case.
IContains(text, q) == Contains(Lower(text), Lower(q))

\* max() of two numbers and of a non-empty set of numbers.
Max(a, b) == IF a > b THEN a ELSE b
SetMax(S) == CHOOSE x \in S : \A y \in S : y <= x

\* Query-string parameters: absent, the text of an integer n, or other text.
Absent == [kind |-> "absent", n |-> 0]
Junk == [kind |-> "junk", n |-> 0]
Num(n) == [kind |-> "num", n |-> n]

\* The values of ?query=, ?limit=, ?threshold= (in tenths) and ?year_from=
\* that are sent.
QueryParams == {<<>>, <<" ">>, <<"A">>, <<" ", "b">>, <<"c">>}
LimitParams == {Absent, Junk, Num(0), Num(1)}
ThresholdParams == {Absent, Junk, Num(-10)}
YearParams == {Absent, Num(2)}

\* lines 331-336: the result limit, 20 by default, kept within 1..100.
ParseLimit(p) == Max(1, Min(IF p.kind = "num" THEN p.n ELSE 20, 100))

\* lines 338-342: the similarity floor, 0.3 by default.
ParseThreshold(p) == IF p.kind = "num" THEN p.n ELSE 3

\* lines 344-347 with ?year_from= as the only filter sent: the studies of
\* year (= id) at least year_from, in Study.Meta.ordering.
FilteredQueryset(year_from) ==
    SelectSeq(StudyOrder, LAMBDA s : year_from.kind # "num" \/ s >= year_from.n)

\* queryset[:limit] left out.
TruncateNothing(list, limit) == list

\* queryset[:limit] and list[:limit].
Truncate(list, limit) == SubSeq(list, 1, Min(limit, Len(list)))

\* lines 349-366: the response when the query is empty.
FilteredResponse(fq, limit) ==
    LET shown == Truncate(fq, limit)
    IN  [search_type |-> "filtered", query |-> <<>>, total |-> Len(shown),
         results |-> [i \in DOMAIN shown |->
                        [study |-> shown[i], relevance_score |-> 10,
                         evidence_sentences |-> <<>>]]]

\* The fallback filter left out.
TextStudiesUnfiltered(fq, query) == fq

\* lines 436-438: the studies of the filtered set whose title or abstract
\* contains the query.
TextStudies(fq, query) ==
    SelectSeq(fq, LAMBDA s : IContains(Title(s), query) \/ IContains(Abstract(s), query))

\* The stored evidence sentences among ids, ordered by (study, id) as
\* EvidenceSentence.Meta.ordering gives them.
RECURSIVE EvidenceOrder(_)
EvidenceOrder(ids) ==
    IF ids = {} THEN <<>>
    ELSE LET m == CHOOSE e \in ids : \A f \in ids :
                      evs[e] < evs[f] \/ (evs[e] = evs[f] /\ e <= f)
         IN  <<m>> \o EvidenceOrder(ids \ {m})

\* lines 440-462: the substring fallback response.
TextResponse(fq, query, limit) ==
    LET shown == Truncate(TextStudies(fq, query), limit)
    IN  [search_type |-> "text", query |-> query, total |-> Len(shown),
         results |-> [i \in DOMAIN shown |->
            [study |-> shown[i], relevance_score |-> 10,
             evidence_sentences |->
                Truncate(EvidenceOrder({e \in DOMAIN evs :
                            evs[e] = shown[i] /\ IContains(SentenceText(e), query)}), 5)]]]

\* get_evidence_by_ids: the stored sentences with one of the hits' ids.
GetEvidenceByIds(hits) ==
    EvidenceOrder({e \in DOMAIN evs : \E j \in DOMAIN hits : hits[j].evidence_id = e})

\* The allow-list test of lines 382-383 left out.
KeptAnyStudy(evidence, allowed) == evidence

\* lines 380-383: the fetched sentences whose study is in the allow-list.
Kept(evidence, allowed) == SelectSeq(evidence, LAMBDA e : evs[e] \in allowed)

\* lines 393-400: the similarity of the first hit of sentence e, else 0.0.
SimilarityOf(hits, e) ==
    LET js == {j \in DOMAIN hits : hits[j].evidence_id = e}
    IN  IF js = {} THEN 0
        ELSE hits[CHOOSE j \in js : \A i \in js : j <= i].similarity_score

\* lines 386-407: max_similarity of a group, which starts at 0.0.
MaxSimilarity(hits, group) ==
    SetMax({0} \cup {SimilarityOf(hits, group[i]) : i \in DOMAIN group})

\* list.sort(key=relevance_score, reverse=True): stable, best first.
RECURSIVE SortByScore(_)
SortByScore(list) ==
    IF list = <<>> THEN <<>>
    ELSE LET best == CHOOSE i \in DOMAIN list :
                        /\ \A j \in DOMAIN list :
                              list[j].relevance_score <= list[i].relevance_score
                        /\ \A j \in 1..(i - 1) :
                              list[j].relevance_score < list[i].relevance_score
         IN  <<list[best]>> \o
             SortByScore(SubSeq(list, 1, best - 1) \o SubSeq(list, best + 1, Len(list)))

\* The studies of a list of sentences, in order of first appearance
\* (the insertion order of studies_dict).
RECURSIVE GroupOrder(_)
GroupOrder(evidence) ==
    IF evidence = <<>> THEN <<>>
    ELSE LET s == evs[Head(evidence)]
         IN  <<s>> \o GroupOrder(SelectSeq(Tail(evidence), LAMBDA e : evs[e] # s))

\* Lines 376-434 falling through to the substring search of lines 436-462
\* when no fetched sentence is of an allowed study.
SemanticResponseOrText(hits, allowed, query, limit) ==
    IF Kept(GetEvidenceByIds(hits), allowed) = <<>>
    THEN TextResponse(FilteredQueryset(req[1].year_from), query, limit)
    ELSE LET kept == Kept(GetEvidenceByIds(hits), allowed)
             order == GroupOrder(kept)
             rows == [i \in DOMAIN order |->
                        LET group == SelectSeq(kept, LAMBDA e : evs[e] = order[i])
                        IN  [study |-> order[i],
                             relevance_score |-> MaxSimilarity(hits, group),
                             evidence_sentences |-> group]]
             shown == Truncate(SortByScore(rows), limit)
         IN  [search_type |-> "semantic", query |-> query, total |-> Len(shown),
              results |-> shown]

\* lines 375-434: the response grouped from a non-empty list of hits.
SemanticResponse(hits, allowed, query, limit) ==
    LET kept == Kept(GetEvidenceByIds(hits), allowed)
        order == GroupOrder(kept)
        rows == [i \in DOMAIN order |->
                   LET group == SelectSeq(kept, LAMBDA e : evs[e] = order[i])
                   IN  [study |-> order[i],
                        relevance_score |-> MaxSimilarity(hits, group),
                        evidence_sentences |-> group]]
        shown == Truncate(SortByScore(rows), limit)
    IN  [search_type |-> "semantic", query |-> query, total |-> Len(shown),
         results |-> shown]

\* A client sends GET /studies/search/ with these parameters; the handler
\* has not answered yet.
Receive(query_param, limit_param, threshold_param, year_from) ==
    /\ ~raised
    /\ req = None \/ resp # None
    /\ req' = <<[query |-> query_param, limit |-> limit_param,
                 threshold |-> threshold_param, year_from |-> year_from,
                 search_results |-> None]>>
    /\ resp' = None
    /\ UNCHANGED evs
    /\ UNCHANGED <<gen, svc, bld, ing, dwn, rce>>

\* StudyViewSet.search, lines 327-462, on the request received;
\* search_results is None when semantic_search.search was not called.
StudySearch ==
    /\ req # None /\ resp = None
    /\ LET query == Strip(req[1].query)
           limit == ParseLimit(req[1].limit)
           threshold == ParseThreshold(req[1].threshold)
           fq == FilteredQueryset(req[1].year_from)
           allowed == Range(fq)
           called == query # <<>> /\ IsAvailable
           hits == IF called THEN SearchResult(query, limit * 2, threshold) ELSE <<>>
       IN  /\ req' = <<[req[1] EXCEPT !.search_results =
                                        IF called THEN <<hits>> ELSE None]>>
           /\ resp' = <<IF query = <<>> THEN FilteredResponse(fq, limit)
                        ELSE IF hits # <<>>
                             THEN SemanticResponse(hits, allowed, query, limit)
                        ELSE TextResponse(fq, query, limit)>>
    /\ UNCHANGED evs
    /\ UNCHANGED <<gen, svc, bld, ing, dwn, rce>>

\* The evidence store the endpoint reads: each sentence the index was built
\* from is of some study, or the second one is no longer stored.
EvidenceStores == [{1, 2} -> Studies] \cup [{1} -> Studies]

\* Three studies; the engine either without an index, or with an index of
\* two vectors and its metadata, with or without its model.
InitApi ==
    /\ etype = <<>>
    /\ secs = <<{}, {}, {}>>
    /\ Empty
    /\ raised = FALSE
    /\ model \in {LoadModel(st) : st \in {"absent", "loads"}}
    /\ \E loaded \in {LoadIndex(d, TRUE, <<ix>>, <<MetaOf(2)>>) :
                          d \in BOOLEAN, ix \in [1..2 -> Vectors]} :
          index = loaded[1] /\ metadata = loaded[2]
    /\ call = None
    /\ results = <<>>
    /\ emb = <<>>
    /\ NoIndex
    /\ evs \in EvidenceStores
    /\ req = None
    /\ resp = None
    /\ NoPublication
    /\ NoDownload
    /\ NoRace

NextApi ==
    \/ \E query_param \in QueryParams, limit_param \in LimitParams,
          threshold_param \in ThresholdParams, year_from \in YearParams :
           Receive(query_param, limit_param, threshold_param, year_from)
    \/ StudySearch

SpecApi == InitApi /\ [][NextApi]_vars

\* ------------------------------------------------------------- ingest_csv
\* A link is a sequence of pieces of text: "h" stands for the scheme and
\* host, "x" for any other text; a PMCID is the pieces "PMC" and digits.
ArticleUrl(d) == <<"h", "pmc/articles/", "PMC", d, "/">>

\* The rows of the CSVs that are fetched: Title and Link.
CsvRows ==
    {[Title |-> <<"T">>, Link |-> ArticleUrl("1")],
     [Title |-> <<" ", "U">>, Link |-> ArticleUrl("1")],
     [Title |-> <<"T">>, Link |-> <<"PMC", "1", "/", "x">>],
     [Title |-> <<>>, Link |-> ArticleUrl("1")],
     [Title |-> <<"T">>, Link |-> <<"h", "x">>],
     [Title |-> <<"U">>, Link |-> ArticleUrl("2")]}

\* The CSV contents: no row, one row, two rows.
Csvs == {<<>>} \cup [{1} -> CsvRows] \cup [{1, 2} -> CsvRows]

\* text.split(sep)[0] and the rest of text after the first sep.
RECURSIVE BeforeFirst(_, _)
BeforeFirst(text, sep) ==
    IF text = <<>> \/ Head(text) = sep THEN <<>>
    ELSE <<Head(text)>> \o BeforeFirst(Tail(text), sep)

AfterFirst(text, sep) == SubSeq(text, Len(BeforeFirst(text, sep)) + 2, Len(text))

\* extract_pmcid, lines 113-128: None when the link has neither form.
ExtractPmcid(url) ==
    IF Contains(url, <<"pmc/articles/", "PMC">>)
    THEN <<"PMC">> \o BeforeFirst(BeforeFirst(AfterFirst(url, "PMC"), "PMC"), "/")
    ELSE IF url # <<>> /\ Head(url) = "PMC" THEN BeforeFirst(url, "/")
    ELSE None

\* Study.objects.get_or_create(pmcid=pmcid, defaults={title, pmc_url}),
\* lines 88-94: a Study of that pmcid is left as it is.
GetOrCreate(P, pmcid, title, url) ==
    IF \E p \in P : p.pmcid = pmcid THEN P
    ELSE P \cup {[pmcid |-> pmcid, title |-> title, pmc_url |-> url]}

\* The loop body without the dry-run test of lines 82-85.
IngestRowAlwaysSaves(P, row, dry_run) ==
    LET title == Strip(row.Title)
        pmc_url == Strip(row.Link)
    IN  IF title = <<>> \/ pmc_url = <<>> THEN P
        ELSE IF ExtractPmcid(pmc_url) = None THEN P
        ELSE GetOrCreate(P, ExtractPmcid(pmc_url), title, pmc_url)

\* One pass of the loop body, lines 61-100, on table P.
IngestRow(P, row, dry_run) ==
    LET title == Strip(row.Title)
        pmc_url == Strip(row.Link)
    IN  IF title = <<>> \/ pmc_url = <<>> THEN P
        ELSE IF ExtractPmcid(pmc_url) = None THEN P
        ELSE IF dry_run THEN P
        ELSE GetOrCreate(P, ExtractPmcid(pmc_url), title, pmc_url)

\* The rows the loop reaches: all of them, or the first `limit` (line 58).
Reached(rows, limit) ==
    IF Truthy(limit) THEN SubSeq(rows, 1, Min(limit[1], Len(rows))) ELSE rows

\* The loop of lines 57-103 on table P.
RECURSIVE IngestRows(_, _, _)
IngestRows(P, rows, dry_run) ==
    IF rows = <<>> THEN P
    ELSE IngestRows(IngestRow(P, Head(rows), dry_run), Tail(rows), dry_run)

\* ingest_csv, lines 30-111: the CSV is fetched (or the request fails and
\* CommandError is raised) and its rows are ingested.
IngestCsv(rows, limit, dry_run, fetched) ==
    /\ pubs' = IF fetched THEN IngestRows(pubs, Reached(rows, limit), dry_run)
               ELSE pubs
    /\ ingest' = <<[rows |-> rows, limit |-> limit, dry_run |-> dry_run,
                    fetched |-> fetched]>>
    /\ UNCHANGED <<gen, svc, bld, web, dwn, rce>>

\* No Study is stored; nothing else is.
InitIngest ==
    /\ etype = <<>>
    /\ secs = <<>>
    /\ Empty
    /\ Unloaded
    /\ emb = <<>>
    /\ NoIndex
    /\ NoRequest
    /\ NoPublication
    /\ NoDownload
    /\ NoRace

NextIngest ==
    \E rows \in Csvs, limit \in {None, <<1>>}, dry_run, fetched \in BOOLEAN :
        IngestCsv(rows, limit, dry_run, fetched)

SpecIngest == InitIngest /\ [][NextIngest]_vars

\* ------------------------------------------------- download_pmc_articles
\* The records parse_publications_csv yields: an article page, and a link
\* that ends with ".pdf".
PublicationRecords ==
    <<[pmcid |-> <<"PMC", "1">>, pmc_url |-> ArticleUrl("1")],
      [pmcid |-> <<"PMC", "2">>, pmc_url |-> ArticleUrl("2") \o <<"pdf", ".pdf">>]>>

\* The CSV contents: no valid record, one, two.
RecordLists == {SubSeq(PublicationRecords, 1, n) : n \in 0..2}

\* The Content-Type headers a server answers with; <<>> is no header.
ContentTypes ==
    {<<>>, <<"text/html", ";", " ", "charset=utf-8">>, <<" ", ";">>,
     <<"application/pdf">>, <<"application/xml">>, <<"image/png">>}

\* What session.get() and raise_for_status() do: a response, or
\* requests.RequestException.
Answers ==
    {[ok |-> FALSE, content_type |-> <<>>]}
        \cup {[ok |-> TRUE, content_type |-> c] : c \in ContentTypes}

\* _default_extension, lines 166-169.
DefaultExtension(record) ==
    IF record.pmc_url # <<>> /\ record.pmc_url[Len(record.pmc_url)] = ".pdf"
    THEN ".pdf" ELSE ".html"

\* _output_path, lines 163-164: the file name and its suffix.
OutputPath(record) == [name |-> record.pmcid, suffix |-> DefaultExtension(record)]

\* mimetypes.guess_extension(mime), for the types outside manual_map.
GuessExtension(mime) ==
    IF mime = <<"image/png">> THEN <<".png">> ELSE None

\* _extension_from_headers, lines 194-214: None or <<the extension>>.
ExtensionFromHeaders(content_type) ==
    LET mime == Strip(BeforeFirst(content_type, ";"))
    IN  IF content_type = <<>> THEN None
        ELSE IF mime = <<>> THEN None
        ELSE IF mime = <<"text/html">> THEN <<".html">>
        ELSE IF mime \in {<<"application/xml">>, <<"text/xml">>} THEN <<".xml">>
        ELSE IF mime = <<"application/pdf">> THEN <<".pdf">>
        ELSE IF mime = <<"application/octet-stream">> THEN <<".bin">>
        ELSE GuessExtension(mime)

\* The path _download_article writes to, lines 184-186.
WrittenPath(output_path, content_type) ==
    LET extension == ExtensionFromHeaders(content_type)
    IN  IF extension # None /\ output_path.suffix # extension[1]
        THEN [output_path EXCEPT !.suffix = extension[1]]
        ELSE output_path

\* One pass of the loop body, lines 112-132, on directory D: what became of
\* the record.
Outcome(D, record, skip_existing, answer) ==
    IF skip_existing /\ OutputPath(record) \in D THEN "skipped"
    ELSE IF answer.ok THEN "downloaded" ELSE "failed"

\* ... and the directory after it: write_bytes creates or replaces the file.
AfterRecord(D, record, skip_existing, answer) ==
    IF Outcome(D, record, skip_existing, answer) = "downloaded"
    THEN D \cup {WrittenPath(OutputPath(record), answer.content_type)}
    ELSE D

\* The directory when the loop of lines 112-136, started on D, reaches
\* record i (after the last record: the directory the run leaves).
RECURSIVE DirAt(_, _, _, _, _)
DirAt(D, records, skip_existing, answers, i) ==
    IF i = 1 THEN D
    ELSE AfterRecord(DirAt(D, records, skip_existing, answers, i - 1),
                     records[i - 1], skip_existing, answers[i - 1])

\* records[: options["limit"]] when the limit is truthy, lines 97-98.
Limited(records, limit) ==
    IF Truthy(limit) THEN SubSeq(records, 1, Min(limit[1], Len(records)))
    ELSE records

\* download_pmc_articles, lines 86-147: CommandError when no record is left,
\* else every record is skipped, downloaded or failed.
DownloadArticles(csv, limit, skip_existing, answers) ==
    LET records == Limited(csv, limit)
    IN  /\ dir' = IF records = <<>> THEN dir
                  ELSE DirAt(dir, records, skip_existing, answers,
                             Len(records) + 1)
        /\ dl' = <<[records |-> records, skip_existing |-> skip_existing,
                    raised |-> records = <<>>,
                    outcome |-> [i \in DOMAIN records |->
                        Outcome(DirAt(dir, records, skip_existing, answers, i),
                                records[i], skip_existing, answers[i])]]>>
        /\ UNCHANGED <<gen, svc, bld, web, ing, rce>>

\* The output directory is empty; nothing else is stored.
InitDownload ==
    /\ etype = <<>>
    /\ secs = <<>>
    /\ Empty
    /\ Unloaded
    /\ emb = <<>>
    /\ NoIndex
    /\ NoRequest
    /\ NoPublication
    /\ NoDownload
    /\ NoRace

NextDownload ==
    \E csv \in RecordLists, limit \in {None, <<1>>}, skip_existing \in BOOLEAN,
       answers \in [{1, 2} -> Answers] :
        DownloadArticles(csv, limit, skip_existing, answers)

SpecDownload == InitDownload /\ [][NextDownload]_vars

\* ------------------------------- two generate_triples processes, one table
\* A process that has ended with outcome out: its transaction and its
\* locals are gone.
Ended(s, out) ==
    [pc |-> out, study |-> s, k |-> 0, found |-> None, ins |-> EmptyBag,
     ups |-> {}]

\* The Triple table as the transaction of d sees it, and as it is once that
\* transaction commits: the committed rows T, with the rows d updated
\* (each by its primary key; a row another transaction has updated in the
\* meantime got the same values) and the rows d inserted.
SeenBy(T, d) ==
    LET live == {u \in d.ups : u.old \in BagToSet(T)}
    IN  ((T (-) SetToBag({u.old : u \in live}))
            (+) SetToBag({u.new : u \in live})) (+) d.ins

\* handle, lines 40-72, for --study-id s without --clear-existing: the
\* transaction opens, or the study has no occurrence and is skipped.
RaceBegin(p, s) ==
    /\ runs[p].pc = "idle"
    /\ runs' = [runs EXCEPT ![p] =
                  IF HasOccurrences(s)
                  THEN [pc |-> "lookup", study |-> s, k |-> 1, found |-> None,
                        ins |-> EmptyBag, ups |-> {}]
                  ELSE Ended(s, "done")]
    /\ UNCHANGED <<gen, svc, bld, web, ing, dwn>>

\* The SELECT of get_or_create, lines 104-114, for the pair the process is
\* at: the row found, none, or MultipleObjectsReturned, which ends the
\* command and rolls its transaction back.
RaceLookup(p) ==
    /\ runs[p].pc = "lookup"
    /\ LET d == runs[p]
           v == WorkList(d.study)[d.k]
           o == Oriented(v[2], v[3])
           seen == SeenBy(triples, d)
           m == Matching(seen, <<d.study, o[1], o[2], o[3]>>)
       IN  runs' = [runs EXCEPT ![p] =
                      IF Raises(seen, d.study, v[2], v[3])
                      THEN Ended(d.study, "failed")
                      ELSE [d EXCEPT !.pc = "write",
                                     !.found = IF m = {} THEN None
                                               ELSE <<CHOOSE r \in m : TRUE>>]]
    /\ UNCHANGED <<gen, svc, bld, web, ing, dwn>>

\* The INSERT of get_or_create when the SELECT found no row, else the
\* upgrade of lines 116-120; then the next pair, lines 84-85.
RaceWrite(p) ==
    /\ runs[p].pc = "write"
    /\ LET d == runs[p]
           v == WorkList(d.study)[d.k]
           o == Oriented(v[2], v[3])
           ev == FindEvidence(sents, d.study, o[1], o[3], v[1])
           next == [d EXCEPT !.k = d.k + 1, !.found = None,
                             !.pc = IF d.k + 1 > Len(WorkList(d.study))
                                    THEN "commit" ELSE "lookup"]
       IN  runs' = [runs EXCEPT ![p] =
              IF d.found = None
              THEN [next EXCEPT !.ins = d.ins (+) SetToBag(
                        {Row(d.study, o[1], o[2], o[3], ev, v[1],
                             IF ev # None THEN 6 ELSE 3)})]
              ELSE IF ev # None /\ d.found[1].ev = None
              THEN LET old == d.found[1]
                       new == [old EXCEPT !.ev = ev, !.qual = v[1], !.conf = 6]
                   IN  IF old \in BagToSet(d.ins)
                       THEN [next EXCEPT !.ins = (d.ins (-) SetToBag({old}))
                                                    (+) SetToBag({new})]
                       ELSE [next EXCEPT !.ups = d.ups \cup
                                            {[old |-> old, new |-> new]}]
              ELSE next]
    /\ UNCHANGED <<gen, svc, bld, web, ing, dwn>>

\* Line 125 and the end of the atomic block: the transaction commits.
RaceCommit(p) ==
    /\ runs[p].pc = "commit"
    /\ triples' = SeenBy(triples, runs[p])
    /\ runs' = [runs EXCEPT ![p] = Ended(runs[p].study, "done")]
    /\ UNCHANGED <<etype, secs, occ, sents, pc, studies, clear, si, phase, k, tx>>
    /\ UNCHANGED <<svc, bld, web, ing, dwn>>

\* The process dies inside its transaction, which is rolled back.
RaceCrash(p) ==
    /\ runs[p].pc \in {"lookup", "write", "commit"}
    /\ runs' = [runs EXCEPT ![p] = Ended(runs[p].study, "killed")]
    /\ UNCHANGED <<gen, svc, bld, web, ing, dwn>>

\* The occurrences stored for the study: none, the two entities in its
\* no-section group, or in that group and in its section.
RaceOccurrences ==
    {{}, {<<1, NoSection, 1>>, <<1, NoSection, 2>>},
     {<<1, NoSection, 1>>, <<1, NoSection, 2>>, <<1, 1, 1>>, <<1, 1, 2>>}}

\* One study with one section, an organism and a stressor; no sentence or
\* one that names both; no triple, or the pair's triple without evidence;
\* two processes not yet started.
InitRace ==
    /\ etype = <<"organism", "stressor">>
    /\ secs = <<{1}>>
    /\ occ \in RaceOccurrences
    /\ sents \in {{}, {[study |-> 1, sec |-> 1, text |-> <<"a", "x", "B">>,
                        idx |-> 1]}}
    /\ triples \in {EmptyBag,
                    SetToBag({Row(1, 1, "affected_by", 2, None, NoSection, 3)})}
    /\ pc = "idle"
    /\ studies = <<>>
    /\ clear = FALSE
    /\ si = 0
    /\ phase = "none"
    /\ k = 0
    /\ tx = EmptyBag
    /\ Unloaded
    /\ emb = <<>>
    /\ NoIndex
    /\ NoRequest
    /\ NoPublication
    /\ NoDownload
    /\ runs = [p \in {1, 2} |-> Ended(1, "idle")]

NextRace ==
    \/ \E p \in DOMAIN runs, s \in Studies : RaceBegin(p, s)
    \/ \E p \in DOMAIN runs : RaceLookup(p)
    \/ \E p \in DOMAIN runs : RaceWrite(p)
    \/ \E p \in DOMAIN runs : RaceCommit(p)
    \/ \E p \in DOMAIN runs : RaceCrash(p)

SpecRace == InitRace /\ [][NextRace]_vars

\* ------------------------------------------------------- claims: vocabulary

\* The number of rows of table T with identity tuple id.
IdCount(T, id) == CountIn(T, Matching(T, id))

\* No identity tuple of table T is held by two rows.
NoDuplicate(T) == \A r \in BagToSet(T) : IdCount(T, Ident(r)) = 1

\* The rows of study s in table T, with their multiplicities.
StudyBag(T, s) == [r \in StudyRows(T, s) |-> T[r]]

\* Entities a and b are both mentioned in section group sec of study s.
CoOccur(s, sec, a, b) == a # b /\ <<s, sec, a>> \in occ /\ <<s, sec, b>> \in occ

\* ---------------------------------------------------------------------- C1
\* C1 (as claimed): after a completed run, every organism and stressor that
\* co-occur in a section of a processed study are linked by a row
\* (organism, affected_by, stressor), whichever of the two has the lower id,
\* and no row written for such a pair has another relation or orientation.
C1_OrganismAffectedByStressor ==
    pc = "done" =>
        \A s \in Range(studies) : \A sec \in Buckets(s) : \A a, b \in Entities :
            (CoOccur(s, sec, a, b) /\ etype[a] = "organism" /\ etype[b] = "stressor")
            => /\ \E r \in StudyRows(triples, s) :
                     r.subj = a /\ r.rel = "affected_by" /\ r.obj = b
               /\ \A r \in StudyRows(triples, s) :
                     {r.subj, r.obj} = {a, b} => (r.subj = a /\ r.rel = "affected_by")

\* ---------------------------------------------------------------------- C2
\* C2: when a run has completed, running the generator once more on any
\* study it processed, without the clear flag and with nothing changed in
\* between, leaves the number of triples of that study as it is and yields
\* no two rows with the same (study, subject, relation, object).
C2_Idempotent ==
    pc = "done" =>
        \A s \in Range(studies) :
            LET again == GenStudy(sents, triples, s, FALSE)
            IN  /\ StudyCount(again, s) = StudyCount(triples, s)
                /\ NoDuplicate(again)

\* A completed run without the clear flag over a study whose pair occurs in
\* two section groups, one of them with an evidence sentence for it.
C2_Witness ==
    /\ pc = "done" /\ ~clear
    /\ \E s \in Range(studies) :
          /\ Cardinality({v[1] : v \in Visits(s)}) >= 2
          /\ \E r \in StudyRows(triples, s) : r.ev # None

\* ---------------------------------------------------------------------- C3
\* C3: in every state, committed or inside a transaction, the Triple table
\* holds at most one row per (study, subject, relation, object).
C3_UniqueIdentity == NoDuplicate(triples) /\ NoDuplicate(tx)

\* A completed clearing run after which a study holds a triple for a pair
\* that occurs in two of its section groups, with a sentence stored.
C3_Witness ==
    /\ pc = "done" /\ clear /\ sents # {}
    /\ \E s \in Range(studies) :
          /\ Cardinality({v[1] : v \in Visits(s)}) >= 2
          /\ StudyRows(triples, s) # {}

\* ---------------------------------------------------------------------- C4
\* The extraction stage has just stored sentence x.
C4_Added(x) == x \in sents' /\ x \notin sents

\* Row r was generated without evidence and x names both of its entities.
C4_Pending(r, x) ==
    /\ r.study = x.study /\ r.ev = None /\ r.conf = 3
    /\ Mentions(x, r.subj, r.obj)

\* After a re-run on the study (table T) the identity of r is held by exactly one row,
\* of confidence 0.6 and with an evidence link.
C4_Upgraded(T, r) ==
    /\ IdCount(T, Ident(r)) = 1
    /\ \A q \in Matching(T, Ident(r)) : q.conf = 6 /\ q.ev # None

\* The sentence x is one the search for the pair of r looks at: it lies in a
\* section in which the pair co-occurs, or the pair co-occurs in the
\* no-section group (whose search covers the whole study).
C4_InSearchedSection(r, x) ==
    \E v \in Visits(x.study) :
        /\ {v[2], v[3]} = {r.subj, r.obj}
        /\ (v[1] = NoSection \/ v[1] = x.sec)

\* C4 (as claimed): whenever a sentence naming both entities of a triple
\* without evidence (confidence 0.3) is added to the triple's study, a
\* re-run without the clear flag leaves exactly one row of that identity,
\* with confidence 0.6 and an evidence link.
C4_UpgradeAnySentence ==
    [][\A x \in sents' : \A r \in BagToSet(triples) :
          (C4_Added(x) /\ C4_Pending(r, x))
          => C4_Upgraded(GenStudy(sents', triples, x.study, FALSE), r)]_vars

\* C4 (amended): the same, for a sentence added to a section the search for
\* the pair looks at.
C4_UpgradeSearchedSentence ==
    [][\A x \in sents' : \A r \in BagToSet(triples) :
          (C4_Added(x) /\ C4_Pending(r, x) /\ C4_InSearchedSection(r, x))
          => C4_Upgraded(GenStudy(sents', triples, x.study, FALSE), r)]_vars

\* A stored triple without evidence and a stored sentence, in a section its
\* search looks at, that names both of its entities.
C4_Witness ==
    /\ pc = "idle"
    /\ \E r \in BagToSet(triples) : \E x \in sents :
          C4_Pending(r, x) /\ C4_InSearchedSection(r, x)

\* ---------------------------------------------------------------------- C5
\* The occurrences of study s are an organism, a stressor and an outcome,
\* the only three entities, in one section group; no sentence of the study
\* names two of them.
C5_Scenario(s) ==
    /\ Cardinality(Entities) = 3
    /\ {etype[e] : e \in Entities} = {"organism", "stressor", "outcome"}
    /\ \E sec \in Buckets(s) :
          {o \in occ : o[1] = s} = {<<s, sec, e>> : e \in Entities}
    /\ \A x \in sents : \A a, b \in Entities :
          (x.study = s /\ a # b) => ~Mentions(x, a, b)

\* The entity of type t.
C5_Entity(t) == CHOOSE e \in Entities : etype[e] = t

\* Table T holds for study s exactly the three triples of the scenario, each
\* once, with confidence 0.3 and no evidence link.
C5_ThreeTriples(T, s) ==
    /\ StudyCount(T, s) = 3
    /\ {<<r.subj, r.rel, r.obj>> : r \in StudyRows(T, s)} =
          {<<C5_Entity("organism"), "affected_by", C5_Entity("stressor")>>,
           <<C5_Entity("organism"), "exhibits", C5_Entity("outcome")>>,
           <<C5_Entity("stressor"), "influences", C5_Entity("outcome")>>}
    /\ \A r \in StudyRows(T, s) : r.conf = 3 /\ r.ev = None

\* C5 (as claimed): when the transaction of a study in the scenario, without
\* prior triples, commits, the study holds exactly the three triples, for
\* every assignment of the ids 1..3 to the three entities.
C5_ScenarioThreeTriples ==
    [][(/\ pc = "run" /\ phase = "pairs" /\ si' = si + 1
        /\ C5_Scenario(studies[si])
        /\ StudyRows(triples, studies[si]) = {})
       => C5_ThreeTriples(triples', studies[si])]_vars

\* ---------------------------------------------------------------------- C6
\* Two stored types are the same type, letter case aside.
C6_SameType(t, u) == LowerType(t) = LowerType(u)

\* C6: every row written for two entities of the same type (letter case
\* aside, the missing type being one type) has relation related_to and the
\* entity of the lower id as subject (the enumeration order, kept as it is);
\* and after a completed run every such pair co-occurring in a processed
\* study has that row.
C6_SameTypeRelatedTo ==
    /\ \A r \in BagToSet(triples) \cup BagToSet(tx) :
          C6_SameType(etype[r.subj], etype[r.obj])
          => (r.rel = "related_to" /\ r.subj < r.obj)
    /\ pc = "done" =>
          \A s \in Range(studies) : \A sec \in Buckets(s) : \A a, b \in Entities :
              (CoOccur(s, sec, a, b) /\ a < b /\ C6_SameType(etype[a], etype[b]))
              => \E r \in StudyRows(triples, s) :
                    r.subj = a /\ r.rel = "related_to" /\ r.obj = b

\* A completed run that wrote related_to for two entities whose types differ
\* in letter case only.
C6_Witness ==
    /\ pc = "done"
    /\ \E r \in BagToSet(triples) :
          /\ etype[r.subj] # etype[r.obj]
          /\ C6_SameType(etype[r.subj], etype[r.obj])
          /\ r.rel = "related_to"

\* ---------------------------------------------------------------------- C7
\* C7: the committed Triple table changes only when the transaction of the
\* study being processed ends, and then to the result of that study's whole
\* transaction (the optional delete and every upsert); every other step,
\* the death of the process part-way through a study included, leaves it
\* as it is.
C7_StudyAtomic ==
    [][\/ triples' = triples
       \/ /\ pc = "run" /\ pc' \in {"run", "done"} /\ si' = si + 1
          /\ triples' = GenStudy(sents, triples, studies[si], clear)]_vars

\* The process is part-way through the second study of a run: the first
\* study's triples are committed, the second's transaction has written rows
\* that are not visible.
C7_Witness ==
    /\ pc = "run" /\ phase = "pairs" /\ si = 2 /\ k > 1
    /\ tx # triples
    /\ StudyRows(triples, studies[1]) # {}

\* ---------------------------------------------------------------------- C8
\* Some row of T1 has fewer rows of its identity in T2.
C8_Removed(T1, T2) ==
    {r \in BagToSet(T1) : IdCount(T2, Ident(r)) < IdCount(T1, Ident(r))}

\* C8: a step of a run leaves the Entity, Section, EntityOccurrence and
\* EvidenceSentence tables as they are; it removes rows, in its transaction
\* or from the committed table, only of the study being processed and only
\* with the clear flag; and the triples of the studies outside the run's
\* selection stay exactly as they are.
C8_Frame ==
    [][pc = "run" =>
         /\ UNCHANGED <<etype, secs, occ, sents>>
         /\ \A r \in C8_Removed(triples, triples') : clear /\ r.study = studies[si]
         /\ phase = "begin" /\ phase' = "pairs" =>
               \A r \in C8_Removed(triples, tx') : clear /\ r.study = studies[si]
         /\ phase = "pairs" /\ phase' = "pairs" => C8_Removed(tx, tx') = {}
         /\ \A s \in Studies \ Range(studies) :
               /\ StudyBag(triples', s) = StudyBag(triples, s)
               /\ phase' = "pairs" => StudyBag(tx', s) = StudyBag(triples, s)]_vars

\* A clearing run restricted to one study has deleted that study's triples
\* in its transaction while another study, outside the selection, holds
\* triples.
C8_Witness ==
    /\ pc = "run" /\ phase = "pairs" /\ clear
    /\ StudyCount(tx, studies[si]) < StudyCount(triples, studies[si])
    /\ \E s \in Studies \ Range(studies) : StudyRows(triples, s) # {}

\* ---------------------------------------------------------------------- C9
\* Every pair visit of study s has its row in table T.
C9_Generated(T, s) ==
    \A v \in Visits(s) :
        LET o == Oriented(v[2], v[3])
        IN  IdCount(T, <<s, o[1], o[2], o[3]>>) >= 1

C10_ThresholdLaw ==
    call # None =>
        \A i \in DOMAIN results : results[i].similarity_score >= call[1].threshold

\* A search with a negative threshold returned a hit of negative similarity
\* and dropped another slot of the same search.
C10_Witness ==
    /\ call # None /\ call[1].threshold < 0
    /\ Len(results) >= 1 /\ Len(results) < call[1].top_k
    /\ \E i \in DOMAIN results : results[i].similarity_score < 0

\* --------------------------------------------------------------------- C12
\* C12 (as claimed): whenever the engine holds no embedding model, the last
\* search() call returned the empty list and is_available() is false,
\* whether or not an index and its metadata were loaded.
C12_NoModelUnavailable ==
    (~raised /\ model = None) => (results = <<>> /\ ~IsAvailable)

\* --------------------------------------------------------------------- C13
\* A load failed: the constructor raised, or one of the three fields was
\* left at None.
C13_LoadFailed == raised \/ model = None \/ index = None \/ metadata = None

\* C13 (as claimed): constructing the engine never raises, and after any
\* load failure the engine is unavailable (is_available() false, index and
\* metadata both absent) and every query returned the empty list.
C13_LoadFailureUnavailable ==
    /\ ~raised
    /\ C13_LoadFailed =>
          (~IsAvailable /\ index = None /\ metadata = None /\ results = <<>>)

\* --------------------------------------------------------------------- C14
\* C14: when a build ends successfully, the index file and the metadata
\* file of its name have the same length, vector i is the embedding (as
\* read by the build) of the sentence metadata row i names, for every i,
\* and the descriptor's total_vectors is that length.
C14_Aligned ==
    [][(build.pc = "descr" /\ build'.pc = "idle" /\ build'.out = "ok") =>
          LET ix == files'[build.name].index
              meta == files'[build.name].meta
          IN  /\ ix # None /\ meta # None
              /\ Len(ix[1]) = Len(meta[1])
              /\ \A i \in DOMAIN meta[1] :
                    /\ i \in DOMAIN ix[1]
                    /\ ix[1][i] = build.rows[meta[1][i].id].val
              /\ descr'[build.name] # None
              /\ descr'[build.name][1].total_vectors = Len(ix[1])]_vars

\* A build succeeded that skipped sentence 1, whose embedding is not JSON,
\* and indexed sentence 2.
C14_Witness ==
    /\ build.out = "ok"
    /\ emb[1].kind = "garbage" /\ emb[2].kind = "array"
    /\ files[build.name].meta = <<<<[id |-> 2]>>>>
    /\ files[build.name].index = <<<<emb[2].val>>>>
    /\ descr[build.name] # None /\ descr[build.name][1].total_vectors = 1

\* --------------------------------------------------------------------- C15
\* C15: an invocation that ends because the descriptor of its name exists
\* (no force flag), or because no sentence has a non-empty embedding,
\* leaves the descriptors and the artifact files as they were.
C15_AbortChangesNothing ==
    [][(build.pc = "idle" /\ build' # build
        /\ build'.out \in {"exists", "no_embeddings"})
       => (descr' = descr /\ files' = files)]_vars

\* A forced rebuild of an existing index was refused because no sentence
\* has an embedding any more; the earlier artifacts are still there.
C15_Witness ==
    /\ build.out = "no_embeddings"
    /\ descr[build.name] # None
    /\ files[build.name].index # None /\ files[build.name].meta # None

\* --------------------------------------------------------------------- C16
\* A well-formed stored embedding: the JSON text of an array of numbers of
\* the model's dimension.
C16_WellFormed(v) == v.kind = "array" /\ v.val \in Vectors

\* C16 (as claimed): an invocation that gets past the existence check and
\* the model load, with at least one sentence holding a well-formed
\* embedding, goes on to write an index of exactly the well-formed
\* embeddings, in order, whatever the others hold.
C16_MalformedSkipped ==
    [][(build.pc = "idle" /\ build' # build
        /\ build'.out \notin {"exists", "model_error"}
        /\ \E i \in DOMAIN emb : C16_WellFormed(emb[i]))
       => LET ids == SelectSeq([i \in DOMAIN emb |-> i],
                               LAMBDA i : C16_WellFormed(emb[i]))
          IN  /\ build'.pc = "index"
              /\ build'.vecs = [j \in DOMAIN ids |-> emb[ids[j]].val]
              /\ build'.meta = [j \in DOMAIN ids |-> [id |-> ids[j]]]]_vars

\* ------------------------------------------- claims: the endpoint's answers
\* The endpoint has answered the last request.
Answered == req # None /\ resp # None

\* The stripped query, the allow-list and the result limit of the last
\* request.
AskedQuery == Strip(req[1].query)
AllowList ==
    {s \in Studies : req[1].year_from.kind = "num" => s >= req[1].year_from.n}
AskedLimit == ParseLimit(req[1].limit)

\* The hits semantic_search.search returned to the last request.
Hits == IF req[1].search_results = None THEN <<>> ELSE req[1].search_results[1]

\* --------------------------------------------------------------------- C11
\* The similarities of the hits that contributed to the group of a row.
C11_Contributed(row) ==
    {Hits[j].similarity_score : j \in {i \in DOMAIN Hits :
        \E n \in DOMAIN row.evidence_sentences :
            row.evidence_sentences[n] = Hits[i].evidence_id}}

\* C11 (as claimed): in a semantic response every study's relevance_score
\* is the maximum similarity among the hits that contributed to its group,
\* for every threshold, and the scores are non-increasing down the list.
C11_MaxOfContributing ==
    (Answered /\ resp[1].search_type = "semantic") =>
        /\ \A i \in DOMAIN resp[1].results :
              resp[1].results[i].relevance_score
                  = SetMax(C11_Contributed(resp[1].results[i]))
        /\ \A i, j \in DOMAIN resp[1].results :
              i < j => resp[1].results[i].relevance_score
                           >= resp[1].results[j].relevance_score

\* --------------------------------------------------------------------- C17
\* C17: a semantic response lists only studies of the allow-list, and at
\* most `limit` of them.
C17_OnlyAllowed ==
    (Answered /\ resp[1].search_type = "semantic") =>
        /\ \A i \in DOMAIN resp[1].results : resp[1].results[i].study \in AllowList
        /\ Len(resp[1].results) <= AskedLimit

\* A semantic response with a study, for a search that also hit a stored
\* sentence of a study outside the allow-list.
C17_Witness ==
    /\ Answered /\ resp[1].search_type = "semantic"
    /\ resp[1].results # <<>>
    /\ \E j \in DOMAIN Hits :
          /\ Hits[j].evidence_id \in DOMAIN evs
          /\ evs[Hits[j].evidence_id] \notin AllowList

\* --------------------------------------------------------------------- C18
\* C18: a request with a non-empty query is answered in "text" mode exactly
\* when the engine is unavailable or its search returned no hit; every
\* study of a text response is in the filtered set, has the query in its
\* title or abstract (letter case ignored) and scores 1.0.
C18_Fallback ==
    (Answered /\ AskedQuery # <<>>) =>
        /\ resp[1].search_type = "text"
              <=> (~IsAvailable \/ req[1].search_results = <<<<>>>>)
        /\ resp[1].search_type = "text" =>
              \A i \in DOMAIN resp[1].results :
                  LET row == resp[1].results[i]
                  IN  /\ row.study \in AllowList
                      /\ \/ Contains(Lower(Title(row.study)), Lower(AskedQuery))
                         \/ Contains(Lower(Abstract(row.study)), Lower(AskedQuery))
                      /\ row.relevance_score = 10

\* The engine is available and found nothing; the text response lists a
\* study and leaves out a study of the filtered set that does not match.
C18_Witness ==
    /\ Answered /\ AskedQuery # <<>>
    /\ IsAvailable /\ model # None /\ req[1].search_results = <<<<>>>>
    /\ resp[1].search_type = "text"
    /\ resp[1].results # <<>>
    /\ \E s \in AllowList :
          \A i \in DOMAIN resp[1].results : resp[1].results[i].study # s

\* --------------------------------------------------------------------- C19
\* C19: a request whose query is empty or blank is answered without a call
\* to the engine, with the first `limit` studies of the filtered set in
\* its order, each with score 1.0 and no evidence sentences.
C19_NoQuery ==
    (Answered /\ AskedQuery = <<>>) =>
        LET fq == FilteredQueryset(req[1].year_from)
        IN  /\ req[1].search_results = None
            /\ Len(resp[1].results) = Min(AskedLimit, Len(fq))
            /\ \A i \in DOMAIN resp[1].results :
                  resp[1].results[i] = [study |-> fq[i], relevance_score |-> 10,
                                        evidence_sentences |-> <<>>]

\* A blank query, with the engine fully loaded, answered with one study
\* out of a larger filtered set.
C19_Witness ==
    /\ Answered /\ req[1].query = <<" ">>
    /\ IsAvailable /\ model # None
    /\ Len(resp[1].results) = 1
    /\ Len(FilteredQueryset(req[1].year_from)) > 1

\* --------------------------------------------------------------------- C20
\* Row i of the last run was ingested: the run fetched its CSV, was not a
\* dry run and reached the row, and the row has a title and a PMC link.
C20_Ingested(run, i) ==
    /\ run.fetched /\ ~run.dry_run
    /\ i \in DOMAIN Reached(run.rows, run.limit)
    /\ Strip(run.rows[i].Title) # <<>>
    /\ ExtractPmcid(Strip(run.rows[i].Link)) # None

\* C20 (as claimed): when a run ingests a row whose PMCID is that of a
\* stored Study with another title, the Study holds the row's title after
\* the run and is the only Study of that PMCID (the row being the last of
\* its PMCID in the CSV).
C20_TitleUpdated ==
    [][ingest' # ingest =>
          \A i \in DOMAIN ingest'[1].rows :
              LET run == ingest'[1]
                  title == Strip(run.rows[i].Title)
                  pmcid == ExtractPmcid(Strip(run.rows[i].Link))
              IN  (/\ C20_Ingested(run, i)
                   /\ \A j \in DOMAIN run.rows :
                         (j > i /\ C20_Ingested(run, j))
                         => ExtractPmcid(Strip(run.rows[j].Link)) # pmcid
                   /\ \E p \in pubs : p.pmcid = pmcid /\ p.title # title)
                  => /\ Cardinality({q \in pubs' : q.pmcid = pmcid}) = 1
                     /\ \A q \in pubs' : q.pmcid = pmcid => q.title = title]_vars

\* --------------------------------------------------------------------- C21
\* C21: a run of ingest_csv with --dry-run leaves the Study table as it
\* was, whatever the CSV holds.
C21_DryRunWritesNothing ==
    [][(ingest' # ingest /\ ingest'[1].dry_run) => pubs' = pubs]_vars

\* The last run was a dry run that fetched a CSV of two rows, a valid row
\* of a PMCID that is not stored and a row without a usable link.
C21_Witness ==
    /\ ingest # None /\ ingest[1].dry_run /\ ingest[1].fetched
    /\ ingest[1].limit = None
    /\ Len(ingest[1].rows) = 2
    /\ \E i, j \in DOMAIN ingest[1].rows :
          /\ Strip(ingest[1].rows[i].Title) # <<>>
          /\ ExtractPmcid(Strip(ingest[1].rows[i].Link)) # None
          /\ \A p \in pubs : p.pmcid # ExtractPmcid(Strip(ingest[1].rows[i].Link))
          /\ ExtractPmcid(Strip(ingest[1].rows[j].Link)) = None

\* The files of `record` in the output directory D, whatever their suffix.
FilesOf(D, record) == {f \in D : f.name = record.pmcid}

\* C22: a run with --skip-existing counts as skipped, and does not request,
\* every record of which the output directory holds a file written by an
\* earlier run, whatever Content-Type that file was answered with.
C22_SkipsDownloaded ==
    [][(dl' # dl /\ dl'[1].skip_existing)
        => \A i \in DOMAIN dl'[1].records :
              FilesOf(dir, dl'[1].records[i]) # {}
                  => dl'[1].outcome[i] = "skipped"]_vars

\* ---------------------------------------------------------------------- C23
\* The unordered pair of the canonical types of the two entities of row r.
C23_TypePair(r) == {Canonical(etype[r.subj]), Canonical(etype[r.obj])}

\* C23 (as claimed): the relation of a written row depends only on the
\* unordered pair of the types of its two entities, whichever has the lower
\* id: two rows over the same pair of types have the same relation, and
\* organism+outcome gives exhibits, stressor+outcome influences,
\* organism+assay measured_by.
C23_LabelByTypePair ==
    LET Written == BagToSet(triples) \cup BagToSet(tx)
    IN  /\ \A r, q \in Written :
              C23_TypePair(r) = C23_TypePair(q) => r.rel = q.rel
        /\ \A r \in Written :
              /\ C23_TypePair(r) = {"organism", "outcome"} => r.rel = "exhibits"
              /\ C23_TypePair(r) = {"stressor", "outcome"} => r.rel = "influences"
              /\ C23_TypePair(r) = {"organism", "assay"} => r.rel = "measured_by"

\* ---------------------------------------------------------------------- C24
\* The relations _infer_relation returns as directional.
C24_Directional == {"affected_by", "exhibits", "influences", "measured_by"}

\* C24: in every written row with a directional relation the subject's type
\* priority is at least the object's, and with equal priorities the subject
\* is the entity of the lower id.
C24_SubjectHasPriority ==
    \A r \in BagToSet(triples) \cup BagToSet(tx) :
        r.rel \in C24_Directional
        => /\ Priority(etype[r.subj]) >= Priority(etype[r.obj])
           /\ Priority(etype[r.subj]) = Priority(etype[r.obj]) => r.subj < r.obj

\* Committed rows of both cases: priorities equal (stressor, outcome), and
\* priorities different with an object of a priority above 0.
C24_Witness ==
    /\ pc = "done"
    /\ \E r, q \in BagToSet(triples) :
          /\ r.rel = "influences"
          /\ Priority(etype[r.subj]) = Priority(etype[r.obj])
          /\ q.rel \in C24_Directional
          /\ Priority(etype[q.subj]) > Priority(etype[q.obj])
          /\ Priority(etype[q.obj]) > 0

\* ---------------------------------------------------------------------- C25
\* The sentences of study s that hold the names of both entities of row r,
\* in section group sec when the group has a section.
C25_Candidates(r, sec) ==
    {x \in sents : /\ x.study = r.study
                   /\ Contains(Lower(x.text), Lower(Name(r.subj)))
                   /\ Contains(Lower(x.text), Lower(Name(r.obj)))
                   /\ sec # NoSection => x.sec = sec}

\* C25: a row that a pair's upsert creates or gives evidence to is linked to
\* the first sentence, in the store's order, of its own study (and of the
\* group's section, when it has one) that holds both names; a row is created
\* without evidence only if there is no such sentence at that moment.
C25_FirstMatchingSentence ==
    [][(pc = "run" /\ phase = "pairs" /\ k' = k + 1)
        => \A r \in BagToSet(tx') \ BagToSet(tx) :
              LET cand == C25_Candidates(r, WorkList(Cur)[k][1])
              IN  IF r.ev = None THEN cand = {}
                  ELSE \E x \in cand :
                          /\ r.ev = SentKey(x)
                          /\ \A y \in cand : y = x \/ SentBefore(x, y)]_vars

\* The open transaction has written a row, or given it evidence, while two
\* sentences of the row's study hold both names.
C25_Witness ==
    /\ pc = "run" /\ phase = "pairs"
    /\ \E r \in BagToSet(tx) \ BagToSet(triples) : \E x, y \in sents :
          /\ r.ev = SentKey(x)
          /\ y # x /\ y.study = r.study
          /\ y \in C25_Candidates(r, NoSection)
          /\ x \in C25_Candidates(r, NoSection)

\* ---------------------------------------------------------------------- C26
\* Table U keeps every row of table T as it is, or with the evidence that
\* the row lacked: the link and the qualifiers set, the confidence 0.6.
C26_Kept(T, U) ==
    \A q \in BagToSet(T) :
        \E r \in BagToSet(U) :
            /\ Ident(r) = Ident(q)
            /\ r = q \/ (q.ev = None /\ r.ev # None /\ r.conf = 6)
            /\ q.ev # None => r.ev = q.ev
            /\ r.conf >= q.conf

\* C26: while a run without the clear flag is under way, every step keeps
\* each row of the committed table, and of the open transaction, unchanged
\* unless the row had no evidence link and is given one; an evidence link
\* is never replaced or removed and no confidence decreases.
C26_ExistingTripleKept ==
    [][(pc = "run" /\ ~clear)
        => /\ C26_Kept(triples, triples')
           /\ (phase = "pairs" /\ phase' = "pairs") => C26_Kept(tx, tx')]_vars

\* A run without the clear flag has given evidence to a committed row that
\* had none and then, at the group of a section where another sentence
\* names the row's entities, has left that link as it was.
C26_Witness ==
    /\ pc = "run" /\ ~clear /\ phase = "pairs"
    /\ k > Len(WorkList(Cur))
    /\ \E q \in BagToSet(triples) : \E r \in BagToSet(tx) : \E x \in sents :
          /\ Ident(r) = Ident(q) /\ q.ev = None /\ r.ev # None
          /\ r.study = Cur /\ x.study = Cur /\ x.sec # NoSection
          /\ r.ev # SentKey(x)
          /\ Mentions(x, r.subj, r.obj)
          /\ CoOccur(Cur, x.sec, r.subj, r.obj)

\* ---------------------------------------------------------------------- C29
\* C29: every row, committed or inside a transaction, has confidence 0.6
\* and an evidence link, or confidence 0.3 and none.
C29_ConfidenceMatchesEvidence ==
    \A r \in BagToSet(triples) \cup BagToSet(tx) :
        \/ r.conf = 6 /\ r.ev # None
        \/ r.conf = 3 /\ r.ev = None

\* After a completed run the table holds a row of each kind, one of them
\* of a study that holds a sentence now.
C29_Witness ==
    /\ pc = "done"
    /\ \E r, q \in BagToSet(triples) :
          /\ r.conf = 6 /\ q.conf = 3
          /\ \E x \in sents : x.study = q.study

\* --------------------------------------------------------------------- C30
\* No hit of the last request can be shown: its sentence is no longer
\* stored, or is of a study outside the allow-list.
C30_NoHitShown ==
    \A j \in DOMAIN Hits :
        \/ Hits[j].evidence_id \notin DOMAIN evs
        \/ evs[Hits[j].evidence_id] \notin AllowList

\* C30: a request with a non-empty query, the engine available and at least
\* one hit is answered in "semantic" mode with studies of hit sentences
\* only (the substring search is not run), and with no result at all when
\* no hit can be shown.
C30_SemanticEvenIfEmpty ==
    (Answered /\ AskedQuery # <<>> /\ IsAvailable /\ Hits # <<>>) =>
        /\ resp[1].search_type = "semantic"
        /\ \A i \in DOMAIN resp[1].results :
              \E j \in DOMAIN Hits :
                  /\ Hits[j].evidence_id \in DOMAIN evs
                  /\ evs[Hits[j].evidence_id] = resp[1].results[i].study
        /\ C30_NoHitShown => (resp[1].results = <<>> /\ resp[1].total = 0)

\* A semantic response without results, to a request with a stale hit and a
\* hit outside the allow-list, while a study of the filtered set has the
\* query in its title or abstract.
C30_Witness ==
    /\ Answered /\ AskedQuery # <<>> /\ IsAvailable /\ Hits # <<>>
    /\ C30_NoHitShown
    /\ resp[1].search_type = "semantic" /\ resp[1].results = <<>>
    /\ \E j \in DOMAIN Hits : Hits[j].evidence_id \notin DOMAIN evs
    /\ \E j \in DOMAIN Hits : Hits[j].evidence_id \in DOMAIN evs
    /\ \E s \in AllowList :
          \/ Contains(Lower(Title(s)), Lower(AskedQuery))
          \/ Contains(Lower(Abstract(s)), Lower(AskedQuery))

\* --------------------------------------------------------------------- C27
\* The descriptor of name n describes the artifacts stored at its paths:
\* both files exist, the index file holds total_vectors vectors of
\* `dimension` entries and the metadata file as many rows.
C27_Describes(n) ==
    /\ files[n].index # None /\ files[n].meta # None
    /\ descr[n][1].total_vectors = Len(files[n].index[1])
    /\ descr[n][1].total_vectors = Len(files[n].meta[1])
    /\ \A j \in DOMAIN files[n].index[1] :
          Len(files[n].index[1][j]) = descr[n][1].dimension

\* C27 (as claimed): whenever no build is running -- none was started, or
\* the last one returned, raised or was interrupted -- the descriptor of a
\* name, if there is one, describes the artifacts stored at its paths.
C27_DescriptorDescribesArtifacts ==
    \A n \in IndexNames :
        (build.pc = "idle" /\ descr[n] # None) => C27_Describes(n)

\* --------------------------------------------------------------------- C28
\* C28 (as claimed): when the two processes have ended, however their
\* lookups and inserts interleaved, no (study, subject, relation, object)
\* is held by two rows.
C28_ConcurrentRunsUnique ==
    (\A p \in DOMAIN runs : runs[p].pc \in {"done", "failed", "killed"})
        => NoDuplicate(triples)

====
